---- MODULE Spec2Model ----
(***************************************************************************)
(* Folder_synch (src/main.py): a one-way mirror of a source directory tree *)
(* onto a replica directory tree, re-run by a self re-arming timer.        *)
(*                                                                         *)
(* A name is a sequence of characters, a path string is a sequence of      *)
(* characters with "/" between names, a node of a tree is a sequence of    *)
(* names.  A tree maps every node of the modelled universe to "none" (no   *)
(* entry), "dir", or the content of a file.                                *)
(***************************************************************************)
EXTENDS Integers, Sequences, FiniteSets, TLC

\* ------------------------------------------------------------------ bounds
\* number of reconciliation cycles (synch() calls) a run may start
MaxCycles == 2
\* number of modifications the environment makes to the source tree
MaxEdits == 1

\* --------------------------------------------------------------- universe
TopNames == {<<"a">>, <<"b">>}
ChildNames == {<<"f">>}
Contents == {"hi", "bye"}
Root == <<>>
Nodes == {Root} \cup {<<n>> : n \in TopNames}
              \cup {<<n, c>> : n \in TopNames, c \in ChildNames}
Kinds == {"none", "dir"} \cup Contents

Parent(p) == SubSeq(p, 1, Len(p) - 1)
IsPrefix(p, q) == Len(p) <= Len(q) /\ SubSeq(q, 1, Len(p)) = p

\* what the filesystem holds at node p (nothing outside the universe)
Kind(fs, p) == IF p \in DOMAIN fs THEN fs[p] ELSE "none"
isdir(fs, p) == Kind(fs, p) = "dir"
isfile(fs, p) == Kind(fs, p) \in Contents
exists(fs, p) == Kind(fs, p) # "none"

\* a tree: the root is a directory or missing, every entry lies in a directory
WellFormed(fs) ==
    /\ fs[Root] \in {"none", "dir"}
    /\ \A p \in DOMAIN fs \ {Root} : fs[p] # "none" => fs[Parent(p)] = "dir"
Trees == {fs \in [Nodes -> Kinds] : WellFormed(fs)}

\* --------------------------------------------------------- path strings
RECURSIVE JoinNames(_)
\* the names of a node path joined by "/"
JoinNames(p) ==
    IF Len(p) = 0 THEN <<>>
    ELSE IF Len(p) = 1 THEN p[1]
    ELSE p[1] \o <<"/">> \o JoinNames(Tail(p))

\* os.path.relpath(root, path) for a walked directory d of the tree at path
relpath(d) == IF d = Root THEN <<".">> ELSE JoinNames(d)

\* os.path.join(a, b) for a relative b
join(a, b) == a \o <<"/">> \o b

RECURSIVE replace_dot_slash(_)
\* str.replace("./", ""): every non-overlapping occurrence, left to right
replace_dot_slash(s) ==
    IF Len(s) = 0 THEN <<>>
    ELSE IF Len(s) >= 2 /\ s[1] = "." /\ s[2] = "/"
         THEN replace_dot_slash(SubSeq(s, 3, Len(s)))
    ELSE <<s[1]>> \o replace_dot_slash(Tail(s))

RECURSIVE SplitPath(_, _)
\* the names of a path string: cur is the name being read
SplitPath(s, cur) ==
    IF Len(s) = 0 THEN <<cur>>
    ELSE IF s[1] = "/" THEN <<cur>> \o SplitPath(Tail(s), <<>>)
    ELSE SplitPath(Tail(s), Append(cur, s[1]))

\* the node that os.path.join(root_path, entry) names under that root
Resolve(entry) == SplitPath(entry, <<>>)

\* ------------------------------------------------------------ os.walk
\* the names entries of the tree fs can have
Names(fs) == {p[Len(p)] : p \in DOMAIN fs \ {Root}}
\* os.scandir returns the entries of a directory in an order the filesystem
\* chooses: every permutation of the names is a possible order
ScanOrders(fs) == {o \in [1..Cardinality(Names(fs)) -> Names(fs)] :
                     \A n \in Names(fs) : \E i \in DOMAIN o : o[i] = n}

\* the names os.scandir(d) yields, in the order ord
scandir(fs, d, ord) == SelectSeq(ord, LAMBDA n : exists(fs, Append(d, n)))

RECURSIVE MapEntries(_, _)
\* one listing entry per name of a walked directory d
MapEntries(d, names) ==
    IF Len(names) = 0 THEN <<>>
    ELSE <<replace_dot_slash(join(relpath(d), names[1]))>>
            \o MapEntries(d, Tail(names))

RECURSIVE walk(_, _, _)
RECURSIVE walk_dirs(_, _, _, _)
\* the loop body of get_content over os.walk(top): for the directory d the
\* entries folders + files, then the walk of each folder, top-down.  A d that
\* cannot be scanned yields nothing (os.walk ignores the error: onerror=None).
walk(fs, d, ord) ==
    IF ~isdir(fs, d) THEN <<>>
    ELSE LET scan == scandir(fs, d, ord)
             folders == SelectSeq(scan, LAMBDA n : isdir(fs, Append(d, n)))
             files == SelectSeq(scan, LAMBDA n : ~isdir(fs, Append(d, n)))
         IN MapEntries(d, folders \o files) \o walk_dirs(fs, d, folders, ord)
walk_dirs(fs, d, folders, ord) ==
    IF Len(folders) = 0 THEN <<>>
    ELSE walk(fs, Append(d, folders[1]), ord)
            \o walk_dirs(fs, d, Tail(folders), ord)

\* the two roots given on the command line
source_path == "source"
replica_path == "replica"
RootPaths == {source_path, replica_path}

\* os.path.join(root_path, file): an absolute path is a root and a path string
path_join(root_path, file) == [root |-> root_path, rel |-> file]
NodeOf(path) == Resolve(path.rel)

\* FolderSynch.get_content(path): the listing of the tree at path
get_content(disk, path, ord) == walk(disk[path], Root, ord)

\* the listings get_content(path) can return, over the orders of os.scandir
Listings(disk, path) ==
    {get_content(disk, path, ord) : ord \in ScanOrders(disk[path])}

\* list helpers of the reconciliation loop
InList(x, l) == \E i \in DOMAIN l : l[i] = x
\* list.remove(x): drops the first occurrence
list_remove(l, x) ==
    LET k == CHOOSE i \in DOMAIN l : l[i] = x /\ \A j \in 1..(i - 1) : l[j] # x
    IN SubSeq(l, 1, k - 1) \o SubSeq(l, k + 1, Len(l))

\* ------------------------------------------------- filesystem operations
\* Each returns the new disk and the exception raised ("" for none); an
\* operation that raises leaves the disk as it was.
Done(disk) == [disk |-> disk, exc |-> ""]
Raise(disk, e) == [disk |-> disk, exc |-> e]
PutTree(disk, r, fs) == [disk EXCEPT ![r] = fs]

\* some proper ancestor of node p is a file
UnderFile(fs, p) == \E k \in 0..(Len(p) - 1) : isfile(fs, SubSeq(p, 1, k))

\* os.makedirs(path): creates path and its missing ancestors
os_makedirs(disk, path) ==
    LET fs == disk[path.root]
        p == NodeOf(path)
    IN IF exists(fs, p) THEN Raise(disk, "FileExistsError")
       ELSE IF UnderFile(fs, p) THEN Raise(disk, "NotADirectoryError")
       ELSE Done(PutTree(disk, path.root,
                [q \in DOMAIN fs |-> IF IsPrefix(q, p) /\ fs[q] = "none"
                                 THEN "dir" ELSE fs[q]]))

\* shutil.copy2(src, dst): whole-file copy, overwriting dst; a dst that is
\* a directory receives the file under the base name of src
shutil_copy2(disk, src, dst) ==
    LET sfs == disk[src.root]
        sp == NodeOf(src)
        dfs == disk[dst.root]
        dp == NodeOf(dst)
        target == IF isdir(dfs, dp) THEN Append(dp, sp[Len(sp)]) ELSE dp
    IN IF isdir(sfs, sp) THEN Raise(disk, "IsADirectoryError")
       ELSE IF ~isfile(sfs, sp) THEN Raise(disk, "FileNotFoundError")
       ELSE IF isdir(dfs, target) THEN Raise(disk, "IsADirectoryError")
       ELSE IF UnderFile(dfs, target) THEN Raise(disk, "NotADirectoryError")
       ELSE IF ~isdir(dfs, Parent(target)) THEN Raise(disk, "FileNotFoundError")
       ELSE Done(PutTree(disk, dst.root,
                [q \in DOMAIN dfs |-> IF q = target THEN sfs[sp] ELSE dfs[q]]))

\* shutil.rmtree(path): the directory and everything beneath it
shutil_rmtree(disk, path) ==
    LET fs == disk[path.root]
        p == NodeOf(path)
    IN IF ~exists(fs, p) THEN Raise(disk, "FileNotFoundError")
       ELSE IF ~isdir(fs, p) THEN Raise(disk, "NotADirectoryError")
       ELSE Done(PutTree(disk, path.root,
                [q \in DOMAIN fs |-> IF IsPrefix(p, q) THEN "none" ELSE fs[q]]))

\* os.remove(path): one file
os_remove(disk, path) ==
    LET fs == disk[path.root]
        p == NodeOf(path)
    IN IF isdir(fs, p) THEN Raise(disk, "IsADirectoryError")
       ELSE IF ~exists(fs, p) THEN Raise(disk, "FileNotFoundError")
       ELSE Done(PutTree(disk, path.root,
                [q \in DOMAIN fs |-> IF q = p THEN "none" ELSE fs[q]]))

\* hashlib sha256 hexdigest of a content: distinct contents, distinct digests
sha256(content) == <<"sha256", content>>

\* FolderSynch.get_hash(path): opens and digests the file
get_hash(disk, path) ==
    LET fs == disk[path.root]
        p == NodeOf(path)
    IN IF isdir(fs, p) THEN [digest |-> <<>>, exc |-> "IsADirectoryError"]
       ELSE IF ~exists(fs, p) THEN [digest |-> <<>>, exc |-> "FileNotFoundError"]
       ELSE [digest |-> sha256(fs[p]), exc |-> ""]

\* --------------------------------------------------- FolderSynch methods
LogLine(msg, path) == [msg |-> msg, path |-> path]

\* copy_file that hands its two paths to shutil.copy2 the other way round
copy_file_Swapped(disk, log, src, dst) ==
    IF isdir(disk[src.root], NodeOf(src))
    THEN LET r == os_makedirs(disk, dst)
         IN [disk |-> r.disk, exc |-> r.exc,
             log |-> IF r.exc = "" THEN Append(log, LogLine("Created folder", dst))
                     ELSE log]
    ELSE LET r == shutil_copy2(disk, dst, src)
         IN [disk |-> r.disk, exc |-> r.exc,
             log |-> IF r.exc = "" THEN Append(log, LogLine("Copied file", dst))
                     ELSE log]

\* copy_file that replaces a file already at the destination: it removes the
\* old file, with a log line, before it copies
copy_file_Replace(disk, log, src, dst) ==
    IF isdir(disk[src.root], NodeOf(src))
    THEN LET r == os_makedirs(disk, dst)
         IN [disk |-> r.disk, exc |-> r.exc,
             log |-> IF r.exc = "" THEN Append(log, LogLine("Created folder", dst))
                     ELSE log]
    ELSE LET old == isfile(disk[dst.root], NodeOf(dst))
             d0 == IF old THEN os_remove(disk, dst).disk ELSE disk
             l0 == IF old THEN Append(log, LogLine("Removed file", dst)) ELSE log
             r == shutil_copy2(d0, src, dst)
         IN [disk |-> r.disk, exc |-> r.exc,
             log |-> IF r.exc = "" THEN Append(l0, LogLine("Copied file", dst))
                     ELSE l0]

\* FolderSynch.copy_file(source_path, replica_path)
copy_file(disk, log, src, dst) ==
    IF isdir(disk[src.root], NodeOf(src))
    THEN LET r == os_makedirs(disk, dst)
         IN [disk |-> r.disk, exc |-> r.exc,
             log |-> IF r.exc = "" THEN Append(log, LogLine("Created folder", dst))
                     ELSE log]
    ELSE LET r == shutil_copy2(disk, src, dst)
         IN [disk |-> r.disk, exc |-> r.exc,
             log |-> IF r.exc = "" THEN Append(log, LogLine("Copied file", dst))
                     ELSE log]

\* remove_file that writes its log line before it removes
remove_file_LogsFirst(disk, log, path) ==
    IF isdir(disk[path.root], NodeOf(path))
    THEN LET r == shutil_rmtree(disk, path)
         IN [disk |-> r.disk, exc |-> r.exc,
             log |-> Append(log, LogLine("Removed folder", path))]
    ELSE LET r == os_remove(disk, path)
         IN [disk |-> r.disk, exc |-> r.exc,
             log |-> Append(log, LogLine("Removed file", path))]

\* FolderSynch.remove_file(path)
remove_file(disk, log, path) ==
    IF isdir(disk[path.root], NodeOf(path))
    THEN LET r == shutil_rmtree(disk, path)
         IN [disk |-> r.disk, exc |-> r.exc,
             log |-> IF r.exc = "" THEN Append(log, LogLine("Removed folder", path))
                     ELSE log]
    ELSE LET r == os_remove(disk, path)
         IN [disk |-> r.disk, exc |-> r.exc,
             log |-> IF r.exc = "" THEN Append(log, LogLine("Removed file", path))
                     ELSE log]

\* FolderSynch.compare_hash(source_path, replica_path): the replica digest is
\* taken from files_hash when the path has an entry and stored there when it
\* has none; the source digest is computed on every call.  hashed lists the
\* paths get_hash was called on, in order.
compare_hash(disk, cache, src, dst) ==
    LET miss == dst \notin DOMAIN cache
        hr == get_hash(disk, dst)
        cache1 == IF miss /\ hr.exc = "" THEN (dst :> hr.digest) @@ cache ELSE cache
        hs == get_hash(disk, src)
        first == IF miss THEN <<dst>> ELSE <<>>
    IN IF miss /\ hr.exc # ""
       THEN [files_hash |-> cache, equal |-> FALSE, exc |-> hr.exc, hashed |-> first]
       ELSE IF hs.exc # ""
       THEN [files_hash |-> cache1, equal |-> FALSE, exc |-> hs.exc,
             hashed |-> Append(first, src)]
       ELSE [files_hash |-> cache1, equal |-> hs.digest = cache1[dst], exc |-> "",
             hashed |-> Append(first, src)]

\* ------------------------------------------------------------------ state
VARIABLES
    disk,        \* the trees under source_path and replica_path
    files_hash,  \* self.files_hash: replica path -> digest
    log,         \* the lines written through self.log.info
    timers,      \* threading.Timer threads started and not yet fired
    started,     \* number of synch() calls begun so far
    thr,         \* per synch() call: position, locals, uncaught exception
    edits,       \* modifications made to the source tree by its owner
    hash_calls,  \* history: path -> number of get_hash calls on it so far
    exit_status  \* "running", or the exit status of the ended process

vars == <<disk, files_hash, log, timers, started, thr, edits, hash_calls, exit_status>>

Threads == 1..MaxCycles

\* the frame of a synch() call: pc is the position, source/replica the two
\* lists, i and j the positions of the two for loops, exc the exception that
\* left the call ("" while none) and by the method it was raised in.  Four
\* fields record history for the properties: calls, the copy_file/remove_file
\* calls made so far; hashed, the paths get_hash was called on so far; snap,
\* the disk as it was when the call listed it; log0, the length of the log
\* then.
NewCall(pc) == [pc |-> pc, source |-> <<>>, replica |-> <<>>, i |-> 0, j |-> 0,
                exc |-> "", by |-> "", calls |-> <<>>, hashed |-> <<>>,
                snap |-> <<>>, log0 |-> 0]

\* hash_calls after get_hash was called on each path of the sequence paths
CountCalls(hc, paths) ==
    [p \in DOMAIN hc \cup {paths[k] : k \in DOMAIN paths} |->
        (IF p \in DOMAIN hc THEN hc[p] ELSE 0)
            + Cardinality({k \in DOMAIN paths : paths[k] = p})]

Running(t) ==
    /\ thr[t].pc \in {"list", "source_loop", "delete_loop", "start_scheduler"}
    /\ thr[t].exc = ""

\* the state after FolderSynch.__init__, as the main thread enters synch()
Init ==
    /\ disk \in [RootPaths -> Trees]
    /\ files_hash = <<>>
    /\ log = <<>>
    /\ timers = 0
    /\ started = 1
    /\ thr = [t \in Threads |-> IF t = 1 THEN NewCall("list") ELSE NewCall("idle")]
    /\ edits = 0
    /\ hash_calls = <<>>
    /\ exit_status = "running"

\* ------------------------------------------------------------------ synch
Call(op, path) == [op |-> op, path |-> path]

\* where synch() stands once the source loop is over (line 65)
AfterSourceLoop(f) ==
    IF f.replica # <<>> THEN [f EXCEPT !.pc = "delete_loop", !.j = 1]
    ELSE [f EXCEPT !.pc = "start_scheduler"]

\* the next iteration of `for file in source`, or the end of the loop
NextSource(f) ==
    IF f.i < Len(f.source) THEN [f EXCEPT !.i = f.i + 1]
    ELSE AfterSourceLoop([f EXCEPT !.i = f.i + 1])

\* the next iteration of `for file in replica`, or the end of the loop
NextDelete(f) ==
    IF f.j < Len(f.replica) THEN [f EXCEPT !.j = f.j + 1]
    ELSE [f EXCEPT !.j = f.j + 1, !.pc = "start_scheduler"]

\* ListTrees with start_scheduler called on entry to synch()
ListTrees_ArmsFirst(t) ==
    /\ thr[t].pc = "list" /\ thr[t].exc = ""
    /\ \E source \in Listings(disk, source_path),
          replica \in Listings(disk, replica_path) :
         LET f == [thr[t] EXCEPT !.source = source, !.replica = replica,
                                 !.snap = disk, !.log0 = Len(log)]
         IN thr' = [thr EXCEPT ![t] =
                      IF f.source # <<>> THEN [f EXCEPT !.pc = "source_loop", !.i = 1]
                      ELSE AfterSourceLoop(f)]
    /\ timers' = timers + 1
    /\ UNCHANGED <<disk, files_hash, log, started, edits, hash_calls, exit_status>>

\* lines 50-51: the two listings
ListTrees(t) ==
    /\ thr[t].pc = "list" /\ thr[t].exc = ""
    /\ \E source \in Listings(disk, source_path),
          replica \in Listings(disk, replica_path) :
         LET f == [thr[t] EXCEPT !.source = source, !.replica = replica,
                                 !.snap = disk, !.log0 = Len(log)]
         IN thr' = [thr EXCEPT ![t] =
                      IF f.source # <<>> THEN [f EXCEPT !.pc = "source_loop", !.i = 1]
                      ELSE AfterSourceLoop(f)]
    /\ UNCHANGED <<disk, files_hash, log, timers, started, edits, hash_calls, exit_status>>

\* lines 52-63: one iteration of the loop over the source listing
SourceStep(t) ==
    /\ thr[t].pc = "source_loop" /\ thr[t].exc = ""
    /\ LET f == thr[t]
           file == f.source[f.i]
           source_file_name == path_join(source_path, file)
           replica_file_name == path_join(replica_path, file)
           cp == copy_file(disk, log, source_file_name, replica_file_name)
           cmp == compare_hash(disk, files_hash, source_file_name, replica_file_name)
           \* the frame once copy_file was called, once compare_hash was called
           fc == [f EXCEPT !.calls = Append(f.calls, Call("copy_file", replica_file_name))]
           fh == [f EXCEPT !.hashed = f.hashed \o cmp.hashed]
           fhc == [fh EXCEPT !.calls = Append(f.calls, Call("copy_file", replica_file_name))]
       IN IF ~InList(file, f.replica)
          THEN \* line 57, then continue
               /\ disk' = cp.disk
               /\ log' = cp.log
               /\ files_hash' = files_hash
               /\ hash_calls' = hash_calls
               /\ thr' = [thr EXCEPT ![t] =
                            IF cp.exc # "" THEN [fc EXCEPT !.exc = cp.exc, !.by = "copy_file"]
                            ELSE NextSource(fc)]
          ELSE IF ~isfile(disk[source_path], NodeOf(source_file_name))
          THEN \* a directory: line 63 only
               /\ UNCHANGED <<disk, log, files_hash>>
               /\ hash_calls' = hash_calls
               /\ thr' = [thr EXCEPT ![t] =
                            NextSource([f EXCEPT !.replica = list_remove(f.replica, file)])]
          ELSE IF cmp.exc # ""
          THEN \* get_hash raised inside compare_hash
               /\ UNCHANGED <<disk, log>>
               /\ files_hash' = cmp.files_hash
               /\ hash_calls' = CountCalls(hash_calls, cmp.hashed)
               /\ thr' = [thr EXCEPT ![t] =
                            [fh EXCEPT !.exc = cmp.exc, !.by = "compare_hash"]]
          ELSE IF cmp.equal
          THEN \* digests agree: line 63 only
               /\ UNCHANGED <<disk, log>>
               /\ files_hash' = cmp.files_hash
               /\ hash_calls' = CountCalls(hash_calls, cmp.hashed)
               /\ thr' = [thr EXCEPT ![t] =
                            NextSource([fh EXCEPT !.replica = list_remove(f.replica, file)])]
          ELSE \* line 61, then line 63
               /\ disk' = cp.disk
               /\ log' = cp.log
               /\ files_hash' = cmp.files_hash
               /\ hash_calls' = CountCalls(hash_calls, cmp.hashed)
               /\ thr' = [thr EXCEPT ![t] =
                            IF cp.exc # "" THEN [fhc EXCEPT !.exc = cp.exc, !.by = "copy_file"]
                            ELSE NextSource([fhc EXCEPT !.replica =
                                                list_remove(f.replica, file)])]
    /\ UNCHANGED <<timers, started, edits, exit_status>>

\* DeleteStep with start_scheduler in a finally clause: the Timer is started
\* also when remove_file raises
DeleteStep_Finally(t) ==
    /\ thr[t].pc = "delete_loop" /\ thr[t].exc = ""
    /\ LET f == thr[t]
           replica_file_name == path_join(replica_path, f.replica[f.j])
           rm == remove_file(disk, log, replica_file_name)
           fc == [f EXCEPT !.calls = Append(f.calls, Call("remove_file", replica_file_name))]
       IN /\ disk' = rm.disk
          /\ log' = rm.log
          /\ thr' = [thr EXCEPT ![t] =
                       IF rm.exc # "" THEN [fc EXCEPT !.exc = rm.exc, !.by = "remove_file"]
                       ELSE NextDelete(fc)]
          /\ timers' = IF rm.exc # "" THEN timers + 1 ELSE timers
    /\ UNCHANGED <<files_hash, started, edits, hash_calls, exit_status>>

\* lines 65-68: one iteration of the loop over what is left of the replica
\* listing
DeleteStep(t) ==
    /\ thr[t].pc = "delete_loop" /\ thr[t].exc = ""
    /\ LET f == thr[t]
           replica_file_name == path_join(replica_path, f.replica[f.j])
           rm == remove_file(disk, log, replica_file_name)
           fc == [f EXCEPT !.calls = Append(f.calls, Call("remove_file", replica_file_name))]
       IN /\ disk' = rm.disk
          /\ log' = rm.log
          /\ thr' = [thr EXCEPT ![t] =
                       IF rm.exc # "" THEN [fc EXCEPT !.exc = rm.exc, !.by = "remove_file"]
                       ELSE NextDelete(fc)]
    /\ UNCHANGED <<files_hash, timers, started, edits, hash_calls, exit_status>>

\* StartScheduler with the Timer built but never started
StartScheduler_NoStart(t) ==
    /\ thr[t].pc = "start_scheduler" /\ thr[t].exc = ""
    /\ thr' = [thr EXCEPT ![t] = NewCall("returned")]
    /\ UNCHANGED <<disk, files_hash, log, timers, started, edits, hash_calls, exit_status>>

\* line 70 and FolderSynch.start_scheduler: a Timer thread is started, and
\* synch() returns (its locals are gone)
StartScheduler(t) ==
    /\ thr[t].pc = "start_scheduler" /\ thr[t].exc = ""
    /\ timers' = timers + 1
    /\ thr' = [thr EXCEPT ![t] = NewCall("returned")]
    /\ UNCHANGED <<disk, files_hash, log, started, edits, hash_calls, exit_status>>

\* a Timer thread reaches the end of its interval and calls self.synch
TimerFire ==
    /\ timers > 0
    /\ started < MaxCycles
    /\ timers' = timers - 1
    /\ started' = started + 1
    /\ thr' = [thr EXCEPT ![started + 1] = NewCall("list")]
    /\ UNCHANGED <<disk, files_hash, log, edits, hash_calls, exit_status>>

\* --------------------------------------------- the owner of the source tree
\* The source tree changes between cycles, while a timer is waiting.
BetweenCycles ==
    /\ \A t \in Threads : ~Running(t)
    /\ timers > 0
    /\ started < MaxCycles
    /\ edits < MaxEdits

EditSource(fs) ==
    /\ disk' = [disk EXCEPT ![source_path] = fs]
    /\ edits' = edits + 1
    /\ UNCHANGED <<files_hash, log, timers, started, thr, hash_calls, exit_status>>

\* a file of the source is written (created or given a new content)
WriteSource ==
    /\ BetweenCycles
    /\ \E p \in DOMAIN disk[source_path] \ {Root}, c \in Contents :
         LET fs == disk[source_path]
         IN /\ isdir(fs, Parent(p)) /\ ~isdir(fs, p) /\ fs[p] # c
            /\ EditSource([fs EXCEPT ![p] = c])

\* a directory is created in the source
MkdirSource ==
    /\ BetweenCycles
    /\ \E p \in DOMAIN disk[source_path] \ {Root} :
         LET fs == disk[source_path]
         IN /\ isdir(fs, Parent(p)) /\ ~exists(fs, p)
            /\ EditSource([fs EXCEPT ![p] = "dir"])

\* a file or a whole directory of the source is deleted
RemoveSource ==
    /\ BetweenCycles
    /\ \E p \in DOMAIN disk[source_path] \ {Root} :
         LET fs == disk[source_path]
         IN /\ exists(fs, p)
            /\ EditSource([q \in DOMAIN fs |-> IF IsPrefix(p, q) THEN "none" ELSE fs[q]])

\* the interpreter exits once the main thread has left synch() and no other
\* non-daemon thread is left, neither a running synch() nor a waiting Timer:
\* with status 1 when the exception of the main thread was not caught, with
\* status 0 otherwise (an exception that ends a Timer thread goes to
\* threading.excepthook and ends only that thread)
ProcessExit ==
    /\ exit_status = "running"
    /\ thr[1].pc = "returned" \/ thr[1].exc # ""
    /\ \A t \in Threads : ~Running(t)
    /\ timers = 0
    /\ exit_status' = IF thr[1].exc # "" THEN "1" ELSE "0"
    /\ UNCHANGED <<disk, files_hash, log, timers, started, thr, edits, hash_calls>>

Next ==
    \/ \E t \in Threads : ListTrees(t)
    \/ \E t \in Threads : SourceStep(t)
    \/ \E t \in Threads : DeleteStep(t)
    \/ \E t \in Threads : StartScheduler(t)
    \/ TimerFire
    \/ WriteSource
    \/ MkdirSource
    \/ RemoveSource
    \/ ProcessExit

Spec == Init /\ [][Next]_vars

\* ------------------------------------ trees with a name that ends in a dot
\* a directory "a." that can hold an entry "b", next to a top-level entry "ab"
DotNodes == {Root, <<(<<"a", ".">>)>>, <<(<<"a", "b">>)>>, <<(<<"a", ".">>), (<<"b">>)>>}
DotTrees == {fs \in [DotNodes -> Kinds] : WellFormed(fs)}

\* the state after FolderSynch.__init__ for two such trees
InitDot ==
    /\ disk \in [RootPaths -> DotTrees]
    /\ files_hash = <<>>
    /\ log = <<>>
    /\ timers = 0
    /\ started = 1
    /\ thr = [t \in Threads |-> IF t = 1 THEN NewCall("list") ELSE NewCall("idle")]
    /\ edits = 0
    /\ hash_calls = <<>>
    /\ exit_status = "running"

SpecDot == InitDot /\ [][Next]_vars

\* A started Timer thread calls synch once its interval has passed.
FairSpec == Spec /\ WF_vars(TimerFire)

\* ============================================================ properties
Entries == Nodes \ {Root}

\* the replica tree d[replica_path] has the entries of the source tree
\* s[source_path], of the same kind and, for files, the same content
Mirrors(d, s) == \A p \in Entries : d[replica_path][p] = s[source_path][p]

\* synch() call t has run all its listing and apply steps and is about to
\* re-arm the timer: the source is still the one the cycle saw
AtEnd(t) == thr[t].pc = "start_scheduler" /\ thr[t].exc = ""
\* the call was left by an exception
Raised(t) == thr[t].exc # ""
\* the call is over, one way or the other
Over(t) == thr[t].pc = "returned" \/ Raised(t)
\* the source loop of call t is over and the deletes have ended, by running
\* out of entries or by an exception
DeletesEnded(t) == AtEnd(t) \/ (thr[t].pc = "delete_loop" /\ Raised(t))

\* C1: at the end of every cycle, the first and every later one, with the
\* source changed between cycles, every file the source and the replica both
\* hold has the content of the source file (the replica follows a content
\* change, also one back to an earlier content).
C1_ReplicaFollowsSource ==
    \A t \in Threads :
        AtEnd(t) =>
            \A p \in Entries :
                isfile(disk[source_path], p) /\ isfile(disk[replica_path], p)
                    => disk[replica_path][p] = disk[source_path][p]

\* C2: for any source tree and any replica tree, once the first synch() call
\* of the process is over the replica has exactly the entries of the source,
\* and every file the content of the source file.
C2_OneCycleConverges ==
    (AtEnd(1) \/ Raised(1)) => Mirrors(disk, disk)

\* C3: a cycle that follows a finished cycle, with the source untouched in
\* between, calls neither copy_file nor remove_file and logs nothing.
C3_SecondCycleIsNoOp ==
    \A t \in Threads :
        (t > 1 /\ edits = 0 /\ thr[t].pc # "idle")
            => thr[t].calls = <<>> /\ (thr[t].pc # "list" => Len(log) = thr[t].log0)

\* C4: when the deletes of a cycle have ended, every entry of the replica
\* listing that had no counterpart in the source listing (what is left of
\* the working list after the source loop) is absent from the replica.
C4_StaleEntriesAbsent ==
    \A t \in Threads :
        DeletesEnded(t) =>
            \A k \in DOMAIN thr[t].replica :
                ~exists(disk[replica_path], Resolve(thr[t].replica[k]))

\* in the listing snapshot of call t, d is a replica directory the source has
\* no entry for, and it holds at least one file
StaleDirWithFile(t, d) ==
    /\ thr[t].snap # <<>>
    /\ isdir(thr[t].snap[source_path], Root)
    /\ isdir(thr[t].snap[replica_path], d)
    /\ ~exists(thr[t].snap[source_path], d)
    /\ \E x \in Entries : IsPrefix(d, x) /\ x # d /\ isfile(thr[t].snap[replica_path], x)

\* the calls of call t that were given a replica path inside directory d
CallsInside(t, d) ==
    {k \in DOMAIN thr[t].calls :
        LET x == NodeOf(thr[t].calls[k].path) IN IsPrefix(d, x) /\ x # d}

\* the log lines call t has written so far
CycleLog(t) == SubSeq(log, thr[t].log0 + 1, Len(log))

\* the call that raised in call t was given a replica path at or inside d
RaisedIn(t, d) ==
    /\ Raised(t) /\ thr[t].calls # <<>>
    /\ IsPrefix(d, NodeOf(thr[t].calls[Len(thr[t].calls)].path))

\* C5: a cycle that finds a replica directory the source lacks, holding a
\* file, removes it with one "Removed folder" event, makes no removal call
\* for what was inside it, and no call on that subtree raises: the cycle
\* goes on with the remaining deletes and arms the next cycle.
C5_StaleFolderRemovedOnce ==
    \A t \in Threads : \A d \in Entries :
        (StaleDirWithFile(t, d) /\ thr[t].pc \in {"delete_loop", "start_scheduler"})
            => /\ CallsInside(t, d) = {}
               /\ ~RaisedIn(t, d)
               /\ AtEnd(t) =>
                    /\ \A x \in Entries : IsPrefix(d, x) => ~exists(disk[replica_path], x)
                    /\ Cardinality({k \in DOMAIN CycleLog(t) :
                          CycleLog(t)[k] = LogLine("Removed folder",
                                path_join(replica_path, JoinNames(d)))}) = 1

\* C6: a step of the source loop at a file entry that both listings hold and
\* whose replica file has the bytes of the source file calls copy_file for
\* no path, in the first cycle and in every later one.
C6_SkipOnMatch ==
    [][\A t \in Threads :
          (/\ thr[t].pc = "source_loop" /\ thr[t].exc = ""
           /\ InList(thr[t].source[thr[t].i], thr[t].replica)
           /\ LET p == Resolve(thr[t].source[thr[t].i])
              IN /\ isfile(disk[source_path], p)
                 /\ disk[replica_path][p] = disk[source_path][p])
          => thr'[t].calls = thr[t].calls]_vars

\* C7: a cycle that listed a missing source root applies nothing to the
\* replica: it calls neither copy_file nor remove_file and the replica tree
\* stays as it was listed.
C7_MissingSourceTouchesNothing ==
    \A t \in Threads :
        (thr[t].snap # <<>> /\ ~exists(thr[t].snap[source_path], Root))
            => thr[t].calls = <<>> /\ disk[replica_path] = thr[t].snap[replica_path]

\* C8: when the first cycle found no replica root, it is not left by an
\* exception, and at its end every source entry is in the replica.
C8_AbsentReplicaIsEmptyReplica ==
    (thr[1].snap # <<>> /\ ~exists(thr[1].snap[replica_path], Root))
        => /\ ~Raised(1)
           /\ AtEnd(1) => Mirrors(disk, disk)

\* C9 as stated: every cycle that is over, returned or left by an exception,
\* has armed the timer, or the next cycle has already started.
C9_EveryCycleRearms ==
    \A t \in Threads : Over(t) => (timers > 0 \/ started > t)

\* C9 amended: a cycle that returns has armed the timer and the next cycle
\* eventually starts; a cycle left by an exception has armed no timer and no
\* cycle follows it.
C9_ReturnedCycleRearms ==
    /\ [](\A t \in Threads : thr[t].pc = "returned" => (timers > 0 \/ started > t))
    /\ [](\A t \in Threads : Raised(t) => (timers = 0 /\ started = t))
    /\ \A t \in 1..(MaxCycles - 1) : (thr[t].pc = "returned") ~> (started > t)

\* a first cycle that returned, followed by a second one that raised
C9_Witness ==
    thr[1].pc = "returned" /\ started = 2 /\ Raised(2) /\ timers = 0

\* C10: at most one synch() call is executing, at most one timer is pending,
\* and a timer is pending only while no synch() call is executing (it is
\* armed by the last step of the call).
C10_OneCycleAtATime ==
    /\ Cardinality({t \in Threads : Running(t)}) <= 1
    /\ timers <= 1
    /\ timers > 0 => \A t \in Threads : ~Running(t)

\* the second cycle is comparing files against a filled files_hash, after
\* the first one returned
C10_Witness ==
    /\ thr[1].pc = "returned" /\ Running(2) /\ thr[2].pc = "source_loop"
    /\ files_hash # <<>> /\ timers = 0

\* C11: a process in which a cycle was left by an exception, the first cycle
\* on the main thread or a later one on a Timer thread, ends with a non-zero
\* exit status.
C11_ErrorExitsNonZero ==
    ((\E t \in Threads : Raised(t)) /\ exit_status # "running") => exit_status # "0"

\* the number of times x occurs in the sequence l
Count(l, x) == Cardinality({k \in DOMAIN l : l[k] = x})

\* the frame of call t holds its listings
Listed(t) == thr[t].snap # <<>>

\* the entries of the source listing of call t
SourceEntries(t) == {thr[t].source[k] : k \in DOMAIN thr[t].source}

\* the indices at which the source listing of call t holds the entry e
Occurrences(t, e) == {k \in DOMAIN thr[t].source : thr[t].source[k] = e}

\* C12: get_hash is called at most once on a replica path in the life of the
\* process, hence at most once over any run of cycles that compare the file
\* without writing it; and in every cycle get_hash is called at most once on
\* a source path, and exactly once when the cycle has been through the entry
\* and found a file on both sides.
C12_FingerprintCaching ==
    /\ \A path \in DOMAIN hash_calls :
         path.root = replica_path => hash_calls[path] <= 1
    /\ \A t \in Threads :
         Listed(t) =>
            \A e \in SourceEntries(t) :
               LET n == Count(thr[t].hashed, path_join(source_path, e))
               IN /\ n <= 1
                  /\ ( /\ isfile(thr[t].snap[source_path], Resolve(e))
                       /\ isfile(thr[t].snap[replica_path], Resolve(e))
                       /\ \A k \in Occurrences(t, e) : k < thr[t].i ) => n = 1

RemovalLines == {"Removed file", "Removed folder"}

\* C13: within one cycle every copy_file call, and every "Created folder" or
\* "Copied file" event, comes before every remove_file call and every
\* "Removed ..." event; once a removal was attempted the loop over the source
\* listing is over.
C13_CreatesBeforeDeletes ==
    \A t \in Threads :
        Listed(t) =>
            LET calls == thr[t].calls
                lines == CycleLog(t)
            IN /\ \A m, n \in DOMAIN calls :
                    (m < n /\ calls[m].op = "remove_file") => calls[n].op = "remove_file"
               /\ \A m, n \in DOMAIN lines :
                    (m < n /\ lines[m].msg \in RemovalLines) => lines[n].msg \in RemovalLines
               /\ (\E m \in DOMAIN calls : calls[m].op = "remove_file")
                    => thr[t].pc \in {"delete_loop", "start_scheduler"}

\* a cycle that has overwritten a replica file and then removed a replica entry
C13_Witness ==
    \E t \in Threads :
        /\ AtEnd(t)
        /\ \E m, n \in DOMAIN thr[t].calls :
             /\ thr[t].calls[m].op = "copy_file"
             /\ isfile(thr[t].snap[replica_path], NodeOf(thr[t].calls[m].path))
             /\ thr[t].calls[n].op = "remove_file"
        /\ \E m, n \in DOMAIN CycleLog(t) :
             /\ CycleLog(t)[m].msg = "Copied file"
             /\ CycleLog(t)[n].msg \in RemovalLines

\* the copy_file and remove_file calls of call t that have returned: all its
\* calls, but the last one when that one raised
Succeeded(t) ==
    IF thr[t].by \in {"copy_file", "remove_file"}
    THEN SubSeq(thr[t].calls, 1, Len(thr[t].calls) - 1)
    ELSE thr[t].calls

\* the line matches the call: same path, a message of the call's method
LineOf(line, call) ==
    /\ line.path = call.path
    /\ call.op = "copy_file" => line.msg \in {"Created folder", "Copied file"}
    /\ call.op = "remove_file" => line.msg \in RemovalLines

\* what the line reports is true of the tree
Applied(fs, line) ==
    /\ line.msg = "Created folder" => isdir(fs, NodeOf(line.path))
    /\ line.msg = "Copied file" => isfile(fs, NodeOf(line.path))
    /\ line.msg \in RemovalLines => ~exists(fs, NodeOf(line.path))

\* a later line reports the removal of the entry of line k, or of a
\* directory above it
Undone(lines, k) ==
    \E n \in DOMAIN lines :
        /\ n > k /\ lines[n].msg \in RemovalLines
        /\ IsPrefix(NodeOf(lines[n].path), NodeOf(lines[k].path))

\* C14: at every point of a cycle, failed or not, its log lines are, one for
\* one and in order, the copy_file and remove_file calls that have succeeded
\* so far, with their paths; a call that raised has no line; and what a line
\* reports is still in place in the replica unless a later line reports its
\* removal: nothing is rolled back.
C14_LogIsAuditTrail ==
    \A t \in Threads :
        Listed(t) =>
            /\ Len(CycleLog(t)) = Len(Succeeded(t))
            /\ \A k \in DOMAIN CycleLog(t) :
                 /\ LineOf(CycleLog(t)[k], Succeeded(t)[k])
                 /\ Undone(CycleLog(t), k) \/ Applied(disk[replica_path], CycleLog(t)[k])

\* a removal raised after the cycle had copied and removed
C14_Witness ==
    \E t \in Threads :
        /\ Raised(t) /\ thr[t].by = "remove_file"
        /\ \E m, n \in DOMAIN CycleLog(t) :
             /\ CycleLog(t)[m].msg \in {"Created folder", "Copied file"}
             /\ CycleLog(t)[n].msg \in RemovalLines

\* C15: at the end of every cycle, every digest in files_hash for a path at
\* which the replica holds a file is the digest of that file's content.
C15_CacheCoherent ==
    \A t \in Threads :
        AtEnd(t) =>
            \A path \in DOMAIN files_hash :
                isfile(disk[replica_path], NodeOf(path))
                    => files_hash[path] = sha256(disk[replica_path][NodeOf(path)])

\* call t was left by an exception: no Timer is pending and no call was
\* begun after it
SchedulingEnded(t) ==
    /\ timers = 0
    /\ started = t
    /\ \A u \in Threads : u > t => thr[u].pc = "idle"

\* a step that leaves the calls, the timers, the replica, the cache and the
\* log as they are
NothingRuns ==
    /\ thr' = thr /\ timers' = timers /\ started' = started
    /\ disk'[replica_path] = disk[replica_path]
    /\ files_hash' = files_hash /\ log' = log

\* C16: once a step of a cycle has raised, no Timer is pending, that cycle is
\* the last one begun, and from then on no call moves, no Timer is started and
\* nothing is written: the cycle stopped at the step that raised and no
\* further cycle starts.
C16_ErrorEndsScheduling ==
    /\ [](\A t \in Threads : Raised(t) => SchedulingEnded(t))
    /\ [][(\E t \in Threads : Raised(t)) => NothingRuns]_vars

\* a cycle was left by an exception of get_hash, and the process has ended
C16_Witness ==
    \E t \in Threads :
        /\ Raised(t) /\ thr[t].by = "compare_hash"
        /\ exit_status # "running"

\* the listing of call t for the tree at root, as get_content returned it:
\* the replica listing loses entries once the source loop has begun
Fresh(t) == Listed(t) /\ thr[t].i <= 1 /\ thr[t].calls = <<>> /\ thr[t].hashed = <<>>

\* the paths, relative to the root, of the entries of a tree
RelativePaths(fs) == {JoinNames(p) : p \in {q \in DOMAIN fs \ {Root} : exists(fs, q)}}

\* the listing l has one entry per entry of the tree fs, its relative path,
\* and no entry twice
Faithful(l, fs) ==
    /\ \A m, n \in DOMAIN l : m # n => l[m] # l[n]
    /\ {l[k] : k \in DOMAIN l} = RelativePaths(fs)

\* C17: the listings get_content returns for the source and for the replica
\* hold exactly the relative paths of the entries of the tree, each once, also
\* for a tree with a directory "a." that holds "b" next to an entry "ab".
C17_ListingFaithful ==
    \A t \in Threads :
        /\ Listed(t) => Faithful(thr[t].source, thr[t].snap[source_path])
        /\ Fresh(t) => Faithful(thr[t].replica, thr[t].snap[replica_path])

\* the entries of the replica listing of call t as get_content returned it
\* (the same entries in every scan order)
ReplicaEntries(t) ==
    LET l == CHOOSE l \in Listings(thr[t].snap, replica_path) : TRUE
    IN {l[k] : k \in DOMAIN l}

\* the source loop of call t has run to its end
SourceLoopDone(t) == Listed(t) /\ thr[t].pc \in {"delete_loop", "start_scheduler"}

\* C18: in every cycle no remove_file call is made for an entry of the source
\* listing, no entry under a directory a remove_file call removed is named by
\* an entry of the source listing, and once the source loop is over the
\* entries left to delete are those of the replica listing that the source
\* listing lacks.
C18_SourceEntriesNeverRemoved ==
    \A t \in Threads :
        Listed(t) =>
            /\ \A k \in DOMAIN thr[t].calls :
                 LET call == thr[t].calls[k]
                 IN call.op = "remove_file" =>
                       /\ call.path.rel \notin SourceEntries(t)
                       /\ \A x \in DOMAIN thr[t].snap[replica_path] :
                             (IsPrefix(NodeOf(call.path), x)
                                /\ exists(thr[t].snap[replica_path], x))
                               => \A e \in SourceEntries(t) : Resolve(e) # x
            /\ SourceLoopDone(t) =>
                 {thr[t].replica[k] : k \in DOMAIN thr[t].replica}
                    = ReplicaEntries(t) \ SourceEntries(t)

\* C19: while a cycle runs and after it was left by an exception, the source
\* tree is as the cycle found it; every copy_file and remove_file call of the
\* cycle, and every line it logs, has a path under the replica root.
C19_SourceUntouched ==
    \A t \in Threads :
        Listed(t) =>
            /\ disk[source_path] = thr[t].snap[source_path]
            /\ \A k \in DOMAIN thr[t].calls : thr[t].calls[k].path.root = replica_path
            /\ \A k \in DOMAIN CycleLog(t) : CycleLog(t)[k].path.root = replica_path

\* a cycle that has created a folder, overwritten a file and removed an entry
\* in the replica, from a source that holds entries
C19_Witness ==
    \E t \in Threads :
        /\ AtEnd(t)
        /\ \E p \in DOMAIN disk[source_path] : isfile(disk[source_path], p)
        /\ \E l, m, n \in DOMAIN CycleLog(t) :
             /\ CycleLog(t)[l].msg = "Created folder"
             /\ CycleLog(t)[m].msg = "Copied file"
             /\ CycleLog(t)[n].msg \in RemovalLines
        /\ disk[replica_path] # thr[t].snap[replica_path]
====
